---- MODULE Spec2Model ----
(***************************************************************************)
(* State-machine model of api/sauce/api.py: one invocation of             *)
(* SauceEndpoint.search, with SauceEndpoint.fetch (streaming GET with a   *)
(* size cap) and SauceEndpoint.request (upstream POST) inlined at the     *)
(* points where the coroutine suspends on network I/O: the GET's response, *)
(* each chunk of the stream, the close of the response on leaving the     *)
(* `async with` block, and the POST's response.                           *)
(*                                                                         *)
(* Python values are encoded uniformly: None is the empty sequence and a  *)
(* value x is the one-element sequence <<x>>.  A response header value is *)
(* a record [t, v] carrying its Python type t ("str" or "int") and the    *)
(* number v it spells.  The bytes of a response body are identified by    *)
(* their offset in the stream (the k-th byte served is the number k), so  *)
(* that any loss, duplication or reordering in the buffer is visible.     *)
(***************************************************************************)
EXTENDS Integers, Sequences, FiniteSets, TLC

VARIABLES
    pc,          \* position of the call: idle, search, get, stream, closing, post, done
    requested,   \* host a HostUrl was asked for: None or <<host>>
    hostUrl,     \* the HostUrl that validation produced: None or <<host>>
    kwargs,      \* keyword arguments as the caller wrote them (Omitted when left out)
    args,        \* search's parameters, defaults bound (url, file, size, ...)
    file,        \* search's local `file`: None or <<buffer>>
    buf,         \* fetch's local `file` (UploadFileIO): [content, pos]
    size,        \* fetch's local `size`
    response,    \* the GET response: [header, body], body = chunk lengths
    chunksRead,  \* number of chunks taken from response.stream
    pending,     \* exception in flight inside `async with` while the response closes
    getCount,    \* GET requests issued in this call
    getHost,     \* host of the GET issued (None when none)
    postCount,   \* POST requests issued in this call
    posted,      \* the POST issued: None or <<[file, params]>>
    fetchResult, \* outcome of fetch
    reqResult,   \* outcome of request
    upstream,    \* the upstream's answer to the POST: None or <<[status, text]>>
    result       \* outcome of search as seen by its caller

vars == <<pc, requested, hostUrl, kwargs, args, file, buf, size, response,
          chunksRead, pending, getCount, getHost, postCount, posted, fetchResult,
          reqResult, upstream, result>>

----------------------------------------------------------------------------
(* Bounds of the model *)

\* SauceConstants.IMAGE_MAXIMUM_SIZE, scaled down
IMAGE_MAXIMUM_SIZE == 2
\* largest chunk response.stream yields
MaxChunkLen == 2
\* largest number of chunks in a response body
MaxChunks == 2

\* SauceConstants.API_KEY, an opaque secret
API_KEY == 777

----------------------------------------------------------------------------
(* Python values *)

None == <<>>
Some(x) == <<x>>
\* a keyword argument the caller left out
Omitted == <<0, 0>>

\* Outcomes of a coroutine: not finished, returned, or raised
NoResult == [kind |-> "none", type |-> "", detail |-> None, value |-> ""]
Return(v) == [kind |-> "return", type |-> "", detail |-> None, value |-> v]
\* raise type(detail=detail); detail None when the class is raised bare
Raise(type, detail) == [kind |-> "raise", type |-> type, detail |-> detail, value |-> ""]

\* Python's a > b on header values: "true", "false" or "TypeError"
\* (str > int is not supported between instances of 'str' and 'int')
PyGt(a, b) ==
    IF a.t # b.t THEN "TypeError"
    ELSE IF a.v > b.v THEN "true" ELSE "false"

PyInt(n) == [t |-> "int", v |-> n]
PyStr(n) == [t |-> "str", v |-> n]

\* Mapping.get(key, default) on the one header the code reads
HeadersGet(header, default) == IF header = None THEN default ELSE header[1]

\* dict.update
DictUpdate(d, e) ==
    [k \in (DOMAIN d) \cup (DOMAIN e) |-> IF k \in DOMAIN e THEN e[k] ELSE d[k]]

\* BytesIO(): empty, position 0
UploadFileIO == [content |-> <<>>, pos |-> 0]

\* BytesIO.write(b): overwrite/extend at the position, advance it
BytesIOWrite(f, b) ==
    LET head == SubSeq(f.content, 1, f.pos)
        tail == SubSeq(f.content, f.pos + Len(b) + 1, Len(f.content))
    IN [content |-> head \o b \o tail, pos |-> f.pos + Len(b)]

\* BytesIO.seek(p)
BytesIOSeekKeep(f, p) == f
BytesIOSeek(f, p) == [f EXCEPT !.pos = p]

RECURSIVE SumTo(_, _)
\* total length of the first n chunks of a body
SumTo(body, n) == IF n = 0 THEN 0 ELSE SumTo(body, n - 1) + body[n]

\* the i-th chunk of a body: its bytes, named by their stream offsets
Chunk(body, i) == [j \in 1..body[i] |-> SumTo(body, i - 1) + j]

----------------------------------------------------------------------------
(* Configuration and collaborators *)

\* hosts a caller may name
Hosts == {"saucenao.com", "evil.example"}

\* SauceConstants.IMAGE_ALLOWED_HOST
IMAGE_ALLOWED_HOST == {"saucenao.com"}

\* class HostUrl(BaseHostUrl): allowed_hosts = SauceConstants.IMAGE_ALLOWED_HOST
allowed_hosts_any == Hosts
allowed_hosts == IMAGE_ALLOWED_HOST

\* BaseHostUrl validation: a HostUrl can be constructed only for an allowed host
HostUrlValidate(host) == host \in allowed_hosts

\* httpx exception classes deriving from HTTPError
HTTPErrorTypes == {"HTTPStatusError", "ConnectError", "ReadTimeout"}
IsHTTPError(type) == type \in HTTPErrorTypes

\* transport-level failures httpx can raise, with their message text
TransportErrors ==
    { Raise("ConnectError", Some("All connection attempts failed")),
      Raise("ReadTimeout", Some("The read operation timed out")) }

\* str(e) of an exception: its message
StrOf(e) == e.detail[1]

\* httpx Response.raise_for_status(): HTTPStatusError for 4xx and 5xx; the
\* exception's message names the status, its .response.text is the body
RaiseForStatus(status, text) ==
    IF status >= 400
    THEN [kind |-> "raise", type |-> "HTTPStatusError",
          detail |-> Some("error response for url"), value |-> text]
    ELSE Return("")

\* response bodies that parse as JSON
JsonTexts == {"{\"results\": []}"}
\* response bodies the upstream may send
Texts == JsonTexts \cup {"Internal Server Error"}
\* statuses the upstream may send
Statuses == {200, 403, 500}

\* Response.json(): the mapping the body text spells (identified with the
\* text), or a decoding error
ResponseJson(text) ==
    IF text \in JsonTexts THEN Return(text)
    ELSE Raise("JSONDecodeError", Some("Expecting value"))

----------------------------------------------------------------------------
(* SauceEndpoint.fetch *)

ImageSourceOversized == Raise("ImageSourceOversizedException", None)

\* the content-length test on the response headers
FetchCheckLength(header) ==
    PyGt(HeadersGet(header, PyInt(-1)), PyInt(IMAGE_MAXIMUM_SIZE))

\* the running-count test after each chunk
ExceedsCap(n) == n > IMAGE_MAXIMUM_SIZE

\* try/except around the GET: what leaves fetch when e is raised inside
FetchExcept(e) ==
    IF IsHTTPError(e.type)
    THEN Raise("UnavailableSourceException", Some(StrOf(e)))
    ELSE e

----------------------------------------------------------------------------
(* SauceEndpoint.request *)

\* params.update({"api_key": ..., "output_type": 2})
RequestParams(params) ==
    DictUpdate(params, [api_key |-> Some(API_KEY), output_type |-> Some(2)])

\* the except clauses of request, in order, reversed
RequestExceptReversed(e) ==
    IF IsHTTPError(e.type) THEN Raise("UpstreamAPIException", None)
    ELSE IF e.type = "HTTPStatusError"
    THEN Raise("UpstreamAPIException", Some(e.value))
    ELSE e
\* only HTTPStatusError is caught
RequestExceptStatusOnly(e) ==
    IF e.type = "HTTPStatusError"
    THEN Raise("UpstreamAPIException", Some(e.value))
    ELSE e
\* the except clauses of request, in order
RequestExcept(e) ==
    IF e.type = "HTTPStatusError"
    THEN Raise("UpstreamAPIException", Some(e.value))
    ELSE IF IsHTTPError(e.type) THEN Raise("UpstreamAPIException", None)
    ELSE e

\* raise_for_status inside the try, response.json() after it
RequestOnResponse(status, text) ==
    LET r == RaiseForStatus(status, text)
    IN IF r.kind = "raise" THEN RequestExcept(r) ELSE ResponseJson(text)

----------------------------------------------------------------------------
(* SauceEndpoint.search *)

\* the params dict search hands to request, with the masks exchanged
SearchParamsSwapped(a) ==
    [dbmask |-> a.disabled_mask, dbmaski |-> a.enabled_mask, db |-> a.database,
     numres |-> a.size, dedupe |-> a.deduplicate]
\* ... with dedupe left at its default
SearchParamsDefaultDedupe(a) ==
    [dbmask |-> a.enabled_mask, dbmaski |-> a.disabled_mask, db |-> a.database,
     numres |-> a.size, dedupe |-> Some(2)]
\* the params dict search hands to request
SearchParams(a) ==
    [dbmask |-> a.enabled_mask, dbmaski |-> a.disabled_mask, db |-> a.database,
     numres |-> a.size, dedupe |-> a.deduplicate]

\* a parameter's value: the keyword argument, or the default when left out
Default(v, d) == IF v = Omitted THEN d ELSE v

\* the signature of search binds the keyword arguments
Bind(kw) ==
    [url |-> Default(kw.url, None), file |-> Default(kw.file, None),
     size |-> Default(kw.size, Some(30)),
     deduplicate |-> Default(kw.deduplicate, Some(2)),
     database |-> Default(kw.database, None),
     enabled_mask |-> Default(kw.enabled_mask, None),
     disabled_mask |-> Default(kw.disabled_mask, None)]

\* `if url is not None`
SearchFetches(a) == a.url # None

\* whether control reaches the call of request after `await self.fetch(url)`
SearchContinuesAlways(fr) == TRUE
SearchContinues(fr) == fr.kind = "return"

----------------------------------------------------------------------------
(* Inputs *)

\* chunk-length sequences of length 0..n
SeqsUpTo(S, n) == UNION { [1..k -> S] : k \in 0..n }

\* response bodies, as the lengths of the chunks response.stream yields
Bodies == SeqsUpTo(0..MaxChunkLen, MaxChunks)

\* content-length header: absent, or a value as httpx gives it (a str), or
\* as an integer-valued headers mapping gives it
ContentLengths ==
    {None} \cup { Some(PyStr(n)) : n \in {1, IMAGE_MAXIMUM_SIZE + 1} }
           \cup { Some(PyInt(n)) : n \in {1, IMAGE_MAXIMUM_SIZE + 1} }

\* buffers a caller may upload
CallerFiles == { [content |-> <<90, 91>>, pos |-> 0] }

\* the url search can be given: none, or any url (the HostUrl annotation of
\* the parameter is not enforced by search)
UrlInputs == {Omitted} \cup { Some(h) : h \in Hosts }
FileInputs == {Omitted} \cup { Some(f) : f \in CallerFiles }
SizeInputs == { Omitted, Some(5) }
\* DeduplicateType, or left out
DeduplicateInputs == { Omitted, Some(0), Some(1), Some(2) }
OptionalInts == { Omitted, None, Some(8) }
MaskInputs == { Omitted, Some(8) }

----------------------------------------------------------------------------
(* State machine *)

Init ==
    /\ pc = "idle"
    /\ requested = None
    /\ hostUrl = None
    /\ kwargs = [url |-> Omitted, file |-> Omitted, size |-> Omitted,
                 deduplicate |-> Omitted, database |-> Omitted,
                 enabled_mask |-> Omitted, disabled_mask |-> Omitted]
    /\ args = Bind(kwargs)
    /\ file = None
    /\ buf = UploadFileIO
    /\ size = 0
    /\ response = [header |-> None, body |-> <<>>]
    /\ chunksRead = 0
    /\ pending = NoResult
    /\ getCount = 0
    /\ getHost = None
    /\ postCount = 0
    /\ posted = None
    /\ fetchResult = NoResult
    /\ reqResult = NoResult
    /\ upstream = None
    /\ result = NoResult

\* request up to its await: the params are merged and the POST is issued
IssueRequest(f) ==
    /\ posted' = Some([file |-> f, params |-> RequestParams(SearchParams(args))])
    /\ postCount' = postCount + 1
    /\ pc' = "post"
    /\ result' = result

\* fetch ends with outcome fr and buffer b; search resumes after its await
AfterFetch(fr, b) ==
    /\ fetchResult' = fr
    /\ file' = IF fr.kind = "return" THEN Some(b) ELSE file
    /\ IF SearchContinues(fr)
       THEN IssueRequest(file')
       ELSE /\ result' = fr
            /\ pc' = "done"
            /\ UNCHANGED <<posted, postCount>>

\* The caller builds a HostUrl from the url it wants to search by; the
\* construction fails for a host outside allowed_hosts
HostUrlConstruct(h) ==
    /\ pc = "idle"
    /\ requested = None
    /\ requested' = Some(h)
    /\ IF HostUrlValidate(h)
       THEN /\ hostUrl' = Some(h)
            /\ UNCHANGED <<pc, result>>
       ELSE /\ hostUrl' = hostUrl
            /\ pc' = "done"
            /\ result' = Raise("ValidationError", Some("host not allowed"))
    /\ UNCHANGED <<kwargs, args, file, buf, size, response, chunksRead, pending,
                   getCount, getHost, postCount, posted, fetchResult, reqResult,
                   upstream>>

\* search is called: its signature binds the keyword arguments, whatever
\* url it is given
Call(u, f, sz, dd, db, em, dm) ==
    /\ pc = "idle"
    /\ kwargs' = [url |-> u, file |-> f, size |-> sz, deduplicate |-> dd,
                  database |-> db, enabled_mask |-> em, disabled_mask |-> dm]
    /\ args' = Bind(kwargs')
    /\ pc' = "search"
    /\ UNCHANGED <<requested, hostUrl, file, buf, size, response, chunksRead,
                   pending, getCount, getHost, postCount, posted, fetchResult,
                   reqResult, upstream, result>>

\* search runs with a url: fetch issues its GET
SearchByUrl ==
    /\ pc = "search"
    /\ SearchFetches(args)
    /\ buf' = UploadFileIO
    /\ size' = 0
    /\ getCount' = getCount + 1
    /\ getHost' = args.url
    /\ file' = args.file
    /\ pc' = "get"
    /\ UNCHANGED <<requested, hostUrl, kwargs, args, response, chunksRead,
                   pending, postCount, posted, fetchResult, reqResult, upstream,
                   result>>

\* search runs without a url: the assert, then request
SearchByFile ==
    /\ pc = "search"
    /\ ~SearchFetches(args)
    /\ file' = args.file
    /\ IF file' = None
       THEN /\ result' = Raise("AssertionError", None)
            /\ pc' = "done"
            /\ UNCHANGED <<posted, postCount>>
       ELSE IssueRequest(file')
    /\ UNCHANGED <<requested, hostUrl, kwargs, args, buf, size, response,
                   chunksRead, pending, getCount, getHost, fetchResult,
                   reqResult, upstream>>

\* the GET's response headers arrive; the content-length test.  A raise
\* inside the `async with` block is in flight while the response closes
FetchResponse(h, body) ==
    /\ pc = "get"
    /\ response' = [header |-> h, body |-> body]
    /\ LET gt == FetchCheckLength(h)
       IN CASE gt = "TypeError" ->
                 /\ pending' = Raise("TypeError",
                        Some("'>' not supported between instances of 'str' and 'int'"))
                 /\ pc' = "closing"
            [] gt = "true" ->
                 /\ pending' = ImageSourceOversized
                 /\ pc' = "closing"
            [] OTHER ->
                 /\ pending' = pending
                 /\ pc' = "stream"
    /\ UNCHANGED <<requested, hostUrl, kwargs, args, file, buf, size, chunksRead,
                   getCount, getHost, postCount, posted, fetchResult, reqResult,
                   upstream, result>>

\* one iteration of `async for stream in response.stream`
FetchChunk ==
    /\ pc = "stream"
    /\ chunksRead < Len(response.body)
    /\ chunksRead' = chunksRead + 1
    /\ buf' = BytesIOWrite(buf, Chunk(response.body, chunksRead'))
    /\ size' = size + Len(Chunk(response.body, chunksRead'))
    /\ IF ExceedsCap(size')
       THEN /\ pending' = ImageSourceOversized
            /\ pc' = "closing"
       ELSE UNCHANGED <<pc, pending>>
    /\ UNCHANGED <<requested, hostUrl, kwargs, args, file, response, getCount,
                   getHost, postCount, posted, fetchResult, reqResult, upstream,
                   result>>

\* the stream is exhausted: the loop ends and the `async with` block is left
FetchStreamEnd ==
    /\ pc = "stream"
    /\ chunksRead = Len(response.body)
    /\ pending' = NoResult
    /\ pc' = "closing"
    /\ UNCHANGED <<requested, hostUrl, kwargs, args, file, buf, size, response,
                   chunksRead, getCount, getHost, postCount, posted, fetchResult,
                   reqResult, upstream, result>>

\* the response is closed: an exception in flight leaves fetch through the
\* except clause; otherwise seek(0), fetch returns and search calls request
FetchClose ==
    /\ pc = "closing"
    /\ IF pending.kind = "raise"
       THEN /\ buf' = buf
            /\ AfterFetch(FetchExcept(pending), buf)
       ELSE /\ buf' = BytesIOSeek(buf, 0)
            /\ AfterFetch(Return("file"), buf')
    /\ UNCHANGED <<requested, hostUrl, kwargs, args, size, response, chunksRead,
                   pending, getCount, getHost, reqResult, upstream>>

\* httpx raises a transport error while opening the stream, before the
\* `async with` block is entered: the except clause wraps it
FetchOpenError(e) ==
    /\ pc = "get"
    /\ AfterFetch(FetchExcept(e), buf)
    /\ UNCHANGED <<requested, hostUrl, kwargs, args, buf, size, response,
                   chunksRead, pending, getCount, getHost, reqResult, upstream>>

\* response.stream raises a transport error inside the block: it is in
\* flight while the response closes
FetchStreamError(e) ==
    /\ pc = "stream"
    /\ pending' = e
    /\ pc' = "closing"
    /\ UNCHANGED <<requested, hostUrl, kwargs, args, file, buf, size, response,
                   chunksRead, getCount, getHost, postCount, posted, fetchResult,
                   reqResult, upstream, result>>

\* closing the response raises a transport error: it replaces whatever is
\* in flight, and the except clause wraps it
FetchCloseError(e) ==
    /\ pc = "closing"
    /\ AfterFetch(FetchExcept(e), buf)
    /\ UNCHANGED <<requested, hostUrl, kwargs, args, buf, size, response,
                   chunksRead, pending, getCount, getHost, reqResult, upstream>>

\* the upstream answers the POST
PostResponse(status, text) ==
    /\ pc = "post"
    /\ upstream' = Some([status |-> status, text |-> text])
    /\ reqResult' = RequestOnResponse(status, text)
    /\ result' = reqResult'
    /\ pc' = "done"
    /\ UNCHANGED <<requested, hostUrl, kwargs, args, file, buf, size, response,
                   chunksRead, pending, getCount, getHost, postCount, posted,
                   fetchResult>>

\* httpx raises a transport error during the POST
PostHTTPError(e) ==
    /\ pc = "post"
    /\ reqResult' = RequestExcept(e)
    /\ result' = reqResult'
    /\ pc' = "done"
    /\ UNCHANGED <<requested, hostUrl, kwargs, args, file, buf, size, response,
                   chunksRead, pending, getCount, getHost, postCount, posted,
                   fetchResult, upstream>>

Next ==
    \/ \E h \in Hosts : HostUrlConstruct(h)
    \/ /\ pc = "idle"
       /\ \E u \in UrlInputs, f \in FileInputs, sz \in SizeInputs,
             dd \in DeduplicateInputs, db \in OptionalInts, em \in MaskInputs,
             dm \in MaskInputs : Call(u, f, sz, dd, db, em, dm)
    \/ SearchByUrl
    \/ SearchByFile
    \/ /\ pc = "get"
       /\ \E h \in ContentLengths, body \in Bodies : FetchResponse(h, body)
    \/ FetchChunk
    \/ FetchStreamEnd
    \/ FetchClose
    \/ \E e \in TransportErrors : FetchOpenError(e)
    \/ \E e \in TransportErrors : FetchStreamError(e)
    \/ \E e \in TransportErrors : FetchCloseError(e)
    \/ \E status \in Statuses, text \in Texts : PostResponse(status, text)
    \/ \E e \in TransportErrors : PostHTTPError(e)

Spec == Init /\ [][Next]_vars

----------------------------------------------------------------------------
(* Properties *)

FetchDone == fetchResult.kind # "none"
\* the size of the body the remote host serves
BodyLen == SumTo(response.body, Len(response.body))
\* the bytes taken from the stream so far
BytesRead == SumTo(response.body, chunksRead)

RECURSIVE ConcatChunks(_, _)
\* the first n chunks of a body, concatenated in order
ConcatChunks(body, n) ==
    IF n = 0 THEN <<>> ELSE ConcatChunks(body, n - 1) \o Chunk(body, n)

\* C1: a response declaring a content-length greater than
\* IMAGE_MAXIMUM_SIZE makes fetch fail (the transport not failing) with
\* ImageSourceOversizedException, with no chunk read and nothing written to
\* the buffer.
C1_DeclaredOversizeRejected ==
    ( /\ FetchDone
      /\ fetchResult.type # "UnavailableSourceException"
      /\ response.header # None
      /\ response.header[1].v > IMAGE_MAXIMUM_SIZE )
    => /\ fetchResult = ImageSourceOversized
       /\ chunksRead = 0
       /\ buf = UploadFileIO

\* C2: when the body actually served is larger than IMAGE_MAXIMUM_SIZE and
\* the content-length header is absent or understates it, and the transport
\* does not fail, fetch fails with ImageSourceOversizedException having read
\* at most IMAGE_MAXIMUM_SIZE plus one chunk, and no chunk is read after the
\* one that crossed the cap.
C2_UndeclaredOversizeCapped ==
    ( /\ FetchDone
      /\ fetchResult.type # "UnavailableSourceException"
      /\ BodyLen > IMAGE_MAXIMUM_SIZE
      /\ (response.header = None \/ response.header[1].v < BodyLen) )
    => /\ fetchResult = ImageSourceOversized
       /\ BytesRead <= IMAGE_MAXIMUM_SIZE + MaxChunkLen
       /\ chunksRead >= 1 => SumTo(response.body, chunksRead - 1) <= IMAGE_MAXIMUM_SIZE

\* C3: whenever fetch returns, the buffer it returns is at read position 0,
\* holds at most IMAGE_MAXIMUM_SIZE bytes, and its content is the
\* concatenation, in order, of all chunks the remote host served.
C3_ReturnedBuffer ==
    fetchResult.kind = "return"
    => /\ file = Some(buf)
       /\ buf.pos = 0
       /\ Len(buf.content) <= IMAGE_MAXIMUM_SIZE
       /\ chunksRead = Len(response.body)
       /\ buf.content = ConcatChunks(response.body, Len(response.body))

C3_Witness ==
    /\ fetchResult.kind = "return"
    /\ Len(response.body) >= 2
    /\ response.body[1] > 0
    /\ response.body[2] > 0
    /\ Len(buf.content) = IMAGE_MAXIMUM_SIZE

\* C4: when the upstream answers the POST with an error status (4xx, 5xx),
\* request fails with UpstreamAPIException whose detail is the text of the
\* upstream response body, and no result mapping is returned.
C4_StatusErrorCarriesBody ==
    (upstream # None /\ upstream[1].status \in 400..599)
    => /\ reqResult = Raise("UpstreamAPIException", Some(upstream[1].text))
       /\ result = reqResult
       /\ result.kind # "return"

C4_Witness ==
    /\ upstream # None
    /\ upstream[1].status = 500
    /\ upstream[1].text = "Internal Server Error"
    /\ result.type = "UpstreamAPIException"

\* C5: when the POST fails with a transport error and no response, request
\* fails with the generic UpstreamAPIException, carrying no detail: neither
\* the raw transport error nor the variant with a body text.
C5_TransportErrorGeneric ==
    (pc = "done" /\ postCount = 1 /\ upstream = None)
    => /\ reqResult = Raise("UpstreamAPIException", None)
       /\ result = reqResult

C5_Witness ==
    /\ pc = "done"
    /\ postCount = 1
    /\ upstream = None
    /\ result.kind = "raise"

\* C6: every failure of fetch is an UnavailableSourceException or an
\* ImageSourceOversizedException: a transport error is wrapped as
\* UnavailableSourceException with the error's text as detail, an oversize
\* is ImageSourceOversizedException with its own detail, and no other kind
\* of error leaves fetch.
C6_OnlySourceErrors ==
    fetchResult.kind = "raise"
    => \/ /\ fetchResult.type = "UnavailableSourceException"
          /\ \E e \in TransportErrors : fetchResult.detail = Some(StrOf(e))
       \/ fetchResult = ImageSourceOversized

\* C7: in a search by url there is at most one GET and at most one POST;
\* a POST is issued only after fetch has returned, with the buffer fetch
\* returned; when fetch fails no POST is issued and search fails with
\* fetch's error, unchanged.
C7_FetchThenRequest ==
    /\ getCount <= 1
    /\ postCount <= 1
    /\ (getCount = 1 /\ postCount = 1)
       => /\ fetchResult.kind = "return"
          /\ posted # None
          /\ posted[1].file = Some(buf)
    /\ fetchResult.kind = "raise"
       => /\ postCount = 0
          /\ posted = None
          /\ pc = "done"
          /\ result = fetchResult

C7_Witness ==
    /\ pc = "post"
    /\ getCount = 1
    /\ postCount = 1
    /\ args.file # None
    /\ Len(buf.content) > 0

\* C8: a search given a file and no url performs no GET; the POST carries
\* the caller's buffer and dedupe equal to the deduplicate argument.
C8_FileSearchSkipsFetch ==
    (args.url = None /\ args.file # None /\ pc \in {"post", "done"})
    => /\ getCount = 0
       /\ fetchResult = NoResult
       /\ postCount = 1
       /\ posted # None
       /\ posted[1].file = args.file
       /\ posted[1].params.dedupe = args.deduplicate

C8_Witness ==
    /\ pc = "post"
    /\ kwargs.url = Omitted
    /\ kwargs.deduplicate = Some(0)
    /\ posted[1].params.dedupe = Some(0)
    /\ getCount = 0

\* C9: the query parameters of the POST are exactly numres, dedupe, db,
\* dbmask, dbmaski with the values of size, deduplicate, database,
\* enabled_mask, disabled_mask (30, 2, None, None, None when left out),
\* plus api_key = the configured secret and output_type = 2.
C9_PostParams ==
    posted # None
    => posted[1].params =
         [numres |-> Default(kwargs.size, Some(30)),
          dedupe |-> Default(kwargs.deduplicate, Some(2)),
          db |-> Default(kwargs.database, None),
          dbmask |-> Default(kwargs.enabled_mask, None),
          dbmaski |-> Default(kwargs.disabled_mask, None),
          api_key |-> Some(API_KEY),
          output_type |-> Some(2)]

C9_Witness ==
    /\ posted # None
    /\ kwargs.size = Omitted
    /\ kwargs.deduplicate = Omitted
    /\ kwargs.database = Omitted
    /\ kwargs.enabled_mask = Some(8)
    /\ kwargs.disabled_mask = Omitted
    /\ posted[1].params.numres = Some(30)
    /\ posted[1].params.dbmask = Some(8)
    /\ posted[1].params.dbmaski = None

\* the url search was given is a HostUrl that validation produced
UrlValidated == kwargs.url # Omitted /\ kwargs.url = hostUrl

====
